---- MODULE Spec2Model ----
(***************************************************************************)
(* bind_manager (src/src/main.rs): a CLI that keeps two flat files, the    *)
(* zone-declaration file /etc/bind/blacklisted.zones and the reason log    *)
(* /etc/bind/reason_log.json, and reloads BIND after a change.             *)
(*                                                                         *)
(* Text is modelled literally: a string is a sequence of one-character     *)
(* strings, and the zone file is the sequence of its characters.           *)
(***************************************************************************)
EXTENDS Integers, Sequences, FiniteSets, TLC

VARIABLES zones,        \* content of ZONES_FILE_PATH, a sequence of characters
          reason_log,   \* content of REASON_LOG_PATH, a document (see to_writer)
          last,         \* what the last invocation was and what it reported
          ever_added,   \* history: the domains some Add was ever invoked with
          conc          \* the invocations that run at the same time (see CLoad)

vars == <<zones, reason_log, last, ever_added, conc>>

----------------------------------------------------------------------------
(* Bounds of the model.                                                    *)

\* Add is not invoked once the zone file holds more lines than this.
MaxZoneLines == 6

----------------------------------------------------------------------------
(* Characters and strings.                                                 *)

NL == "\n"
QUOTE == "\""

\* char::is_whitespace, on the characters that occur.
IsWhitespace(c) == c \in {" ", "\t", "\n", "\r"}

\* Byte value of the characters domains are made of (String's Ord is bytewise).
CharCode(c) ==
    CASE c = "." -> 46
      [] c = "q" -> 113
      [] c = "w" -> 119
      [] c = "x" -> 120

\* a < b in Rust's order on String: lexicographic on bytes.
StrLess(a, b) ==
    \E i \in 1..(Len(a) + 1) :
        /\ i <= Len(b)
        /\ \A j \in 1..(i - 1) : a[j] = b[j]
        /\ \/ i = Len(a) + 1
           \/ CharCode(a[i]) < CharCode(b[i])

SetMin(S) == CHOOSE x \in S : \A y \in S : x <= y

\* The elements of a set of integers in ascending order.
Ascending(S) ==
    [k \in 1..Cardinality(S) |->
        CHOOSE x \in S : Cardinality({y \in S : y < x}) = k - 1]

\* BufRead::lines(): the text split at "\n", the newline dropped; what follows
\* the last newline is a line only when it is not empty.
lines(text) ==
    LET nl == {i \in 1..Len(text) : text[i] = NL}
        starts == ({1} \cup {i + 1 : i \in nl}) \cap (1..Len(text))
        ord == Ascending(starts)
    IN  [k \in 1..Len(ord) |->
            SubSeq(text, ord[k],
                   SetMin({i \in nl : i >= ord[k]} \cup {Len(text) + 1}) - 1)]

\* str::contains(pat): pat occurs in line as a substring ("" occurs in any line).
contains(line, pat) ==
    \E i \in 0..(Len(line) - Len(pat)) : SubSeq(line, i + 1, i + Len(pat)) = pat

\* [String]::join(sep)
RECURSIVE join(_, _)
join(ls, sep) ==
    IF Len(ls) = 0 THEN <<>>
    ELSE IF Len(ls) = 1 THEN ls[1]
    ELSE ls[1] \o sep \o join(Tail(ls), sep)

\* str::split_whitespace(): the maximal runs of non-whitespace characters.
split_whitespace(line) ==
    LET starts == {i \in 1..Len(line) :
                      /\ ~IsWhitespace(line[i])
                      /\ (i = 1 \/ IsWhitespace(line[i - 1]))}
        ws == {i \in 1..Len(line) : IsWhitespace(line[i])}
        ord == Ascending(starts)
    IN  [k \in 1..Len(ord) |->
            SubSeq(line, ord[k],
                   SetMin({i \in ws : i > ord[k]} \cup {Len(line) + 1}) - 1)]

\* str::trim_matches('"'): every leading and trailing quote removed.
trim_matches(s) ==
    LET keep == {i \in 1..Len(s) : s[i] # QUOTE}
    IN  IF keep = {} THEN <<>>
        ELSE SubSeq(s, SetMin(keep), CHOOSE x \in keep : \A y \in keep : y <= x)

None == [some |-> FALSE]
Some(v) == [some |-> TRUE, value |-> v]

\* The domain of a declaration line: the second whitespace-separated part when
\* it starts and ends with a quote.
parse_domain_from_line(line) ==
    LET parts == split_whitespace(line)
    IN  IF Len(parts) >= 2
        THEN LET part == parts[2]
             IN  IF part[1] = QUOTE /\ part[Len(part)] = QUOTE
                 THEN Some(trim_matches(part))
                 ELSE None
        ELSE None

\* format!("zone \"{}\" {{type master; file \"...blockeddomains.db\";}};\n\n", domain)
entry_format(domain) ==
    <<"z", "o", "n", "e", " ", QUOTE>> \o domain \o
    <<QUOTE, " ", "{", "t", "y", "p", "e", " ", "m", "a", "s", "t", "e", "r", ";",
      " ", "f", "i", "l", "e", " ", QUOTE, "/", "e", "t", "c", "/", "b", "i", "n",
      "d", "/", "z", "o", "n", "e", "s", "/", "m", "a", "s", "t", "e", "r", "/",
      "b", "l", "o", "c", "k", "e", "d", "d", "o", "m", "a", "i", "n", "s", ".",
      "d", "b", QUOTE, ";", "}", ";", NL, NL>>

----------------------------------------------------------------------------
(* Inputs.                                                                 *)

\* The domains the commands are invoked with: two unrelated names ("x", "w")
\* and one ("xx") that has another as a substring.  None occurs in the fixed
\* text of a declaration.
Domains == { <<"x">>, <<"x", "x">>, <<"w">> }

\* Two unrelated names, for the runs that vary the reload and the file faults.
TwoDomains == { <<"x">>, <<"w">> }

Reasons == { "abuse", "fraud" }

\* How `rndc reload` ends: exit status zero, exit status non-zero, or the
\* process cannot be started (Command::output() returns Err).
ReloadOutcomes == { "success", "failure", "spawn_error" }
ReloadSucceeds == { "success" }

\* The file operation of an invocation that fails, if any: opening the zone
\* file (lines 94, 117, 155) or opening the reason log for writing (line 74).
NoFault == { "none" }
Faults == { "none", "zone_open", "log_save" }

----------------------------------------------------------------------------
(* Messages on standard output.                                            *)

MsgUpdated == "Record already exists, updated reason for domain."
MsgAdded == "Domain added to blacklist."
MsgRemoved == "Domain removed from blacklist."
MsgNotFound == "Domain not found."
MsgReloaded == "BIND reloaded successfully."
MsgReloadFailed == "Failed to reload BIND."
DefaultReason == "No reason provided."

----------------------------------------------------------------------------
(* The reason log.                                                         *)

DomainEntry(domain, reason) == [domain |-> domain, reason |-> reason]

\* The reason-log file: absent, or a JSON document holding the entries, or
\* content that does not parse.
AbsentFile == [kind |-> "absent", entries |-> <<>>]

\* serde_json::to_writer: the document that holds the entries, in order.
to_writer(entries) == [kind |-> "json", entries |-> entries]

\* serde_json::from_reader: the entries of a document, Err for anything else.
from_reader(file) ==
    IF file.kind = "json" THEN Some(file.entries) ELSE None

\* No file, or a file that does not parse, is an empty log.
load_reason_log(file) ==
    IF file.kind # "absent"
    THEN LET parsed == from_reader(file)
         IN  IF parsed.some THEN parsed.value ELSE <<>>
    ELSE <<>>

\* Truncates the file and writes the entries as one document.
save_reason_log(entries) == to_writer(entries)

\* Iterator::position: the index of the first entry for the domain, 0 for None.
position(entries, domain) ==
    LET hits == {i \in 1..Len(entries) : entries[i].domain = domain}
    IN  IF hits = {} THEN 0 ELSE SetMin(hits)

\* Vec::swap_remove(idx), a variant of remove: the last entry takes the place
\* of the removed one.
swap_remove(entries, idx) ==
    IF idx = Len(entries) THEN SubSeq(entries, 1, Len(entries) - 1)
    ELSE [k \in 1..(Len(entries) - 1) |->
             IF k = idx THEN entries[Len(entries)] ELSE entries[k]]

\* Vec::remove(idx)
remove(entries, idx) ==
    SubSeq(entries, 1, idx - 1) \o SubSeq(entries, idx + 1, Len(entries))

----------------------------------------------------------------------------
(* The operations.  Each takes the two files and the invocation's inputs   *)
(* and yields the files afterwards, the exit ("ok" for Ok(()), "err" for   *)
(* an Err that main propagates), the messages printed and whether and how  *)
(* the reload ran ("none" when it was not attempted).                      *)

Outcome(z, log, exit, out, reload) ==
    [zones |-> z, reason_log |-> log, exit |-> exit, out |-> out, reload |-> reload]

\* reload_bind, run after the stores are as (z, log) and `out` was printed.
reload_bind(z, log, out, rl) ==
    IF rl = "spawn_error" THEN Outcome(z, log, "err", out, rl)
    ELSE IF rl = "success" THEN Outcome(z, log, "ok", Append(out, MsgReloaded), rl)
    ELSE Outcome(z, log, "ok", Append(out, MsgReloadFailed), rl)

\* A variant of add_domain that never looks the domain up: it always pushes.
add_domain_always_pushes(z, log, domain, reason, fault, rl) ==
    LET pushed == Append(load_reason_log(log), DomainEntry(domain, reason))
    IN  IF fault = "zone_open"
        THEN Outcome(z, log, "err", <<>>, "none")
        ELSE IF fault = "log_save"
        THEN Outcome(z \o entry_format(domain), log, "err", <<MsgAdded>>, "none")
        ELSE reload_bind(z \o entry_format(domain), save_reason_log(pushed),
                         <<MsgAdded>>, rl)

\* A variant of add_domain that returns right after saving an updated reason,
\* without the reload.
add_domain_skips_reload_on_update(z, log, domain, reason, fault, rl) ==
    LET entries == load_reason_log(log)
        idx == position(entries, domain)
    IN  IF idx # 0
        THEN IF fault = "log_save"
             THEN Outcome(z, log, "err", <<MsgUpdated>>, "none")
             ELSE Outcome(z, save_reason_log([entries EXCEPT ![idx].reason = reason]),
                          "ok", <<MsgUpdated>>, "none")
        ELSE IF fault = "zone_open"
        THEN Outcome(z, log, "err", <<>>, "none")
        ELSE IF fault = "log_save"
        THEN Outcome(z \o entry_format(domain), log, "err", <<MsgAdded>>, "none")
        ELSE reload_bind(z \o entry_format(domain),
                         save_reason_log(Append(entries, DomainEntry(domain, reason))),
                         <<MsgAdded>>, rl)

\* A variant of add_domain that saves the reason log before it opens the zone
\* file.
add_domain_saves_first(z, log, domain, reason, fault, rl) ==
    LET entries == load_reason_log(log)
        idx == position(entries, domain)
        changed == IF idx # 0 THEN [entries EXCEPT ![idx].reason = reason]
                   ELSE Append(entries, DomainEntry(domain, reason))
        said == IF idx # 0 THEN <<MsgUpdated>> ELSE <<MsgAdded>>
    IN  IF fault = "log_save"
        THEN Outcome(z, log, "err", <<>>, "none")
        ELSE IF idx # 0
        THEN reload_bind(z, save_reason_log(changed), said, rl)
        ELSE IF fault = "zone_open"
        THEN Outcome(z, save_reason_log(changed), "err", <<>>, "none")
        ELSE reload_bind(z \o entry_format(domain), save_reason_log(changed), said, rl)

\* A variant of add_domain that opens the zone file with truncate instead of
\* append, so the declaration replaces the content.
add_domain_truncates(z, log, domain, reason, fault, rl) ==
    LET entries == load_reason_log(log)
        idx == position(entries, domain)
    IN  IF idx # 0
        THEN IF fault = "log_save"
             THEN Outcome(z, log, "err", <<MsgUpdated>>, "none")
             ELSE reload_bind(z, save_reason_log([entries EXCEPT ![idx].reason = reason]),
                              <<MsgUpdated>>, rl)
        ELSE IF fault = "zone_open"
        THEN Outcome(z, log, "err", <<>>, "none")
        ELSE IF fault = "log_save"
        THEN Outcome(entry_format(domain), log, "err", <<MsgAdded>>, "none")
        ELSE reload_bind(entry_format(domain),
                         save_reason_log(Append(entries, DomainEntry(domain, reason))),
                         <<MsgAdded>>, rl)

add_domain(z, log, domain, reason, fault, rl) ==
    LET entries == load_reason_log(log)
        idx == position(entries, domain)
    IN  IF idx # 0
        THEN \* the domain already exists: update its reason, save, reload
             LET updated == [entries EXCEPT ![idx].reason = reason]
             IN  IF fault = "log_save"
                 THEN Outcome(z, log, "err", <<MsgUpdated>>, "none")
                 ELSE reload_bind(z, save_reason_log(updated), <<MsgUpdated>>, rl)
        ELSE \* a new domain: push, append the declaration, save, reload
             LET pushed == Append(entries, DomainEntry(domain, reason))
             IN  IF fault = "zone_open"
                 THEN Outcome(z, log, "err", <<>>, "none")
                 ELSE LET appended == z \o entry_format(domain)
                      IN  IF fault = "log_save"
                          THEN Outcome(appended, log, "err", <<MsgAdded>>, "none")
                          ELSE reload_bind(appended, save_reason_log(pushed),
                                           <<MsgAdded>>, rl)

\* A variant of filtered_lines that drops only the lines equal to the domain.
filtered_lines_exact(all_lines, domain) ==
    SelectSeq(all_lines, LAMBDA line : line # domain)

\* The lines of the zone file that do not contain the domain.
filtered_lines(all_lines, domain) ==
    SelectSeq(all_lines, LAMBDA line : ~contains(line, domain))

\* A variant of remove_domain that opens the zone file before it saves the
\* reason log.
remove_domain_opens_first(z, log, domain, fault, rl) ==
    LET entries == load_reason_log(log)
        index == position(entries, domain)
        saved == IF index # 0 THEN save_reason_log(remove(entries, index)) ELSE log
    IN  IF fault = "zone_open"
        THEN Outcome(z, log, "err", <<>>, "none")
        ELSE IF index # 0 /\ fault = "log_save"
        THEN Outcome(z, log, "err", <<>>, "none")
        ELSE LET all_lines == lines(z)
                 filtered == filtered_lines(all_lines, domain)
             IN  IF Len(filtered) < Len(all_lines)
                 THEN reload_bind(join(filtered, <<NL>>), saved, <<MsgRemoved>>, rl)
                 ELSE IF index = 0
                 THEN reload_bind(z, saved, <<MsgNotFound>>, rl)
                 ELSE reload_bind(z, saved, <<>>, rl)

remove_domain(z, log, domain, fault, rl) ==
    LET entries == load_reason_log(log)
        index == position(entries, domain)
        saved == IF index # 0 THEN save_reason_log(remove(entries, index)) ELSE log
    IN  IF index # 0 /\ fault = "log_save"
        THEN Outcome(z, log, "err", <<>>, "none")
        ELSE IF fault = "zone_open"
        THEN Outcome(z, saved, "err", <<>>, "none")
        ELSE LET all_lines == lines(z)
                 filtered == filtered_lines(all_lines, domain)
             IN  IF Len(filtered) < Len(all_lines)
                 THEN reload_bind(join(filtered, <<NL>>), saved, <<MsgRemoved>>, rl)
                 ELSE IF index = 0
                 THEN reload_bind(z, saved, <<MsgNotFound>>, rl)
                 ELSE reload_bind(z, saved, <<>>, rl)

\* reasons_map.get(domain): the reason of the last entry inserted for it.
reasons_map_get(entries, domain) ==
    LET hits == {i \in 1..Len(entries) : entries[i].domain = domain}
    IN  IF hits = {} THEN None
        ELSE Some(entries[CHOOSE i \in hits : \A j \in hits : j <= i].reason)

\* ZoneFile domains in file order: one per line that parses.
listed_domains(z) ==
    LET all == lines(z)
        idx == SelectSeq([k \in 1..Len(all) |-> k],
                         LAMBDA k : parse_domain_from_line(all[k]).some)
    IN  [k \in 1..Len(idx) |-> parse_domain_from_line(all[idx[k]]).value]

\* A variant of list_rows that prints the domains in file order, unsorted.
list_rows_unsorted(z, log) ==
    LET entries == load_reason_log(log)
        listed == listed_domains(z)
    IN  [k \in 1..Len(listed) |->
            [domain |-> listed[k],
             width |-> 0,
             reason |-> LET r == reasons_map_get(entries, listed[k])
                        IN  IF r.some THEN r.value ELSE DefaultReason]]

\* The rows list_domains prints: the sorted domains, each with the width it is
\* padded to and its reason.
list_rows(z, log) ==
    LET entries == load_reason_log(log)
        sorted == SortSeq(listed_domains(z), StrLess)
        max_len == IF Len(sorted) = 0 THEN 0
                   ELSE CHOOSE n \in {Len(sorted[k]) : k \in 1..Len(sorted)} :
                            \A k \in 1..Len(sorted) : Len(sorted[k]) <= n
    IN  [k \in 1..Len(sorted) |->
            [domain |-> sorted[k],
             width |-> max_len,
             reason |-> LET r == reasons_map_get(entries, sorted[k])
                        IN  IF r.some THEN r.value ELSE DefaultReason]]

----------------------------------------------------------------------------
(* The state machine: one action per command of the CLI (main's match).    *)

\* Whether some line of the zone file contains the domain.
InZoneFile(z, domain) ==
    LET all_lines == lines(z)
    IN  \E k \in 1..Len(all_lines) : contains(all_lines[k], domain)

\* Whether the reason log has an entry for the domain.
InReasonLog(log, domain) == position(load_reason_log(log), domain) # 0

\* The record kept of an invocation: the command and its arguments, the inputs
\* drawn for it, what it reported, and what held just before it ran.
Invocation(op, domain, reason, fault, res, rows) ==
    [op |-> op, domain |-> domain, reason |-> reason, fault |-> fault,
     exit |-> res.exit, out |-> res.out, reload |-> res.reload, rows |-> rows,
     in_log |-> InReasonLog(reason_log, domain),
     in_zone |-> InZoneFile(zones, domain),
     never_added |-> domain \notin ever_added,
     after_add |-> last.op = "add" /\ last.domain = domain /\ last.exit = "ok"]

\* The processes that may run add_domain at the same time.
Procs == { "p", "q" }

\* A process that is not running: no arguments, nothing loaded.
IdleProc == [pc |-> "idle", domain |-> <<>>, reason |-> "", entries |-> <<>>,
             is_new |-> FALSE]

\* No process runs; `saved` lists the processes in the order they wrote the
\* reason log since the last time none was running.
NoneRunning == [proc |-> [p \in Procs |-> IdleProc], saved |-> <<>>]

Init ==
    /\ zones = <<>>
    /\ reason_log = AbsentFile
    /\ ever_added = {}
    /\ conc = NoneRunning
    /\ last = [op |-> "none", domain |-> <<>>, reason |-> "", fault |-> "none",
               exit |-> "ok", out |-> <<>>, reload |-> "none", rows |-> <<>>,
               in_log |-> FALSE, in_zone |-> FALSE, never_added |-> TRUE,
               after_add |-> FALSE]

\* bind_manager add <domain> <reason>
Add(domain, reason, fault, rl) ==
    /\ InReasonLog(reason_log, domain) \/ Len(lines(zones)) + 2 <= MaxZoneLines
    /\ LET res == add_domain(zones, reason_log, domain, reason, fault, rl)
       IN  /\ zones' = res.zones
           /\ reason_log' = res.reason_log
           /\ last' = Invocation("add", domain, reason, fault, res, <<>>)
    /\ ever_added' = ever_added \cup {domain}
    /\ UNCHANGED conc

\* bind_manager del <domain>
Del(domain, fault, rl) ==
    /\ LET res == remove_domain(zones, reason_log, domain, fault, rl)
       IN  /\ zones' = res.zones
           /\ reason_log' = res.reason_log
           /\ last' = Invocation("del", domain, "", fault, res, <<>>)
    /\ UNCHANGED <<ever_added, conc>>

\* bind_manager list
List(fault) ==
    /\ LET res == IF fault = "zone_open"
                  THEN Outcome(zones, reason_log, "err", <<>>, "none")
                  ELSE Outcome(zones, reason_log, "ok", <<>>, "none")
           rows == IF fault = "zone_open" THEN <<>> ELSE list_rows(zones, reason_log)
       IN  last' = Invocation("list", <<>>, "", fault, res, rows)
    /\ UNCHANGED <<zones, reason_log, ever_added, conc>>

Step(D, F, R) ==
    \/ \E domain \in D, reason \in Reasons, fault \in F, rl \in R :
           Add(domain, reason, fault, rl)
    \/ \E domain \in D, fault \in F, rl \in R :
           Del(domain, fault, rl)
    \/ \E fault \in F : List(fault)

\* Invocations one after another; no file operation fails, the reload succeeds.
Next == Step(Domains, NoFault, ReloadSucceeds)

Spec == Init /\ [][Next]_vars

\* The same, the reload ending in any of its three ways.
NextReload == Step(TwoDomains, NoFault, ReloadOutcomes)

SpecReload == Init /\ [][NextReload]_vars

\* The same, where an invocation's file operation may fail.
NextIO == Step(TwoDomains, Faults, ReloadSucceeds)

SpecIO == Init /\ [][NextIO]_vars

----------------------------------------------------------------------------
(* Two invocations of `add` at the same time.  Nothing in the program      *)
(* locks the files, so the file operations of add_domain interleave: each  *)
(* action below is one of them, run by one process.                        *)

\* A reason log that exists and does not parse (an empty or garbled file).
Unparseable == [kind |-> "corrupt", entries |-> <<>>]

SetProc(p, rec) == [conc EXCEPT !.proc[p] = rec]

\* Lines 80-91: load the reason log, then find the domain in the entries
\* loaded and update the reason, or push a new entry.
CLoad(p, domain, reason) ==
    /\ conc.proc[p].pc = "idle"
    /\ Len(lines(zones))
           + 2 * Cardinality({q \in Procs : conc.proc[q].pc = "append"}) + 2
         <= MaxZoneLines
    /\ LET entries == load_reason_log(reason_log)
           idx == position(entries, domain)
       IN  conc' = SetProc(p,
                     [pc |-> IF idx # 0 THEN "save" ELSE "append",
                      domain |-> domain, reason |-> reason,
                      entries |-> IF idx # 0
                                  THEN [entries EXCEPT ![idx].reason = reason]
                                  ELSE Append(entries, DomainEntry(domain, reason)),
                      is_new |-> idx = 0])
    /\ UNCHANGED <<zones, reason_log, last, ever_added>>

\* Lines 93-95: open the zone file for append and write the declaration.
CAppend(p) ==
    /\ conc.proc[p].pc = "append"
    /\ zones' = zones \o entry_format(conc.proc[p].domain)
    /\ conc' = SetProc(p, [conc.proc[p] EXCEPT !.pc = "save"])
    /\ UNCHANGED <<reason_log, last, ever_added>>

\* Line 74: open the reason log with truncate(true); the file is empty now.
COpenLog(p) ==
    /\ conc.proc[p].pc = "save"
    /\ reason_log' = Unparseable
    /\ conc' = SetProc(p, [conc.proc[p] EXCEPT !.pc = "write"])
    /\ UNCHANGED <<zones, last, ever_added>>

\* A variant of CWrite that reads the entries on disk again and keeps those
\* of the domains it does not hold itself.
CWriteMerging(p) ==
    /\ conc.proc[p].pc = "write"
    /\ LET mine == conc.proc[p].entries
           theirs == SelectSeq(load_reason_log(reason_log),
                               LAMBDA e : position(mine, e.domain) = 0)
       IN  reason_log' = to_writer(theirs \o mine)
    /\ conc' = [SetProc(p, [conc.proc[p] EXCEPT !.pc = "reload"])
                  EXCEPT !.saved = Append(conc.saved, p)]
    /\ UNCHANGED <<zones, last, ever_added>>

\* Line 75: write the entries loaded at the start, from the start of the file.
\* When another process has written since this one truncated, the bytes of the
\* two documents overlay each other: the file holds this document, or text
\* that does not parse.
CWrite(p) ==
    /\ conc.proc[p].pc = "write"
    /\ reason_log' \in
           IF reason_log.kind = "json"
           THEN {to_writer(conc.proc[p].entries), Unparseable}
           ELSE {to_writer(conc.proc[p].entries)}
    /\ conc' = [SetProc(p, [conc.proc[p] EXCEPT !.pc = "reload"])
                  EXCEPT !.saved = Append(conc.saved, p)]
    /\ UNCHANGED <<zones, last, ever_added>>

\* Line 102 to the end of main: reload and exit.
CFinish(p) ==
    /\ conc.proc[p].pc = "reload"
    /\ conc' = SetProc(p, [conc.proc[p] EXCEPT !.pc = "done"])
    /\ UNCHANGED <<zones, reason_log, last, ever_added>>

\* Every process has exited; the next invocations start from these files.
CExit ==
    /\ \A p \in Procs : conc.proc[p].pc = "done"
    /\ conc' = NoneRunning
    /\ UNCHANGED <<zones, reason_log, last, ever_added>>

NextConc ==
    \/ \E p \in Procs, domain \in TwoDomains, reason \in Reasons :
           CLoad(p, domain, reason)
    \/ \E p \in Procs : CAppend(p)
    \/ \E p \in Procs : COpenLog(p)
    \/ \E p \in Procs : CWrite(p)
    \/ \E p \in Procs : CFinish(p)
    \/ CExit

SpecConc == Init /\ [][NextConc]_vars

----------------------------------------------------------------------------
(* What is read off a state.                                               *)

Range(f) == {f[k] : k \in DOMAIN f}

\* The domains List() would show, and the domains the reason log holds.
ZoneDomains == Range(listed_domains(zones))
LogDomains == {e.domain : e \in Range(load_reason_log(reason_log))}

\* List() run in this state shows the domain with the reason.
ListShows(domain, reason) ==
    \E row \in Range(list_rows(zones, reason_log)) :
        row.domain = domain /\ row.reason = reason

\* The last invocation was this command and returned Ok(()).
Completed(op) == last.op = op /\ last.exit = "ok"

----------------------------------------------------------------------------
(* The claims.                                                             *)

\* C1: after a completed Add(d, r) of a domain d that was in neither the reason
\* log nor the zone file, List() shows d with reason r.
C1_AddThenListShows ==
    (Completed("add") /\ ~last.in_log /\ ~last.in_zone)
        => ListShows(last.domain, last.reason)

\* C2: after every completed Add or Remove, the domains of the zone file are
\* the domains of the reason log.
C2_StoresAgree ==
    (Completed("add") \/ Completed("del")) => ZoneDomains = LogDomains

\* C3: Remove(d) of a domain no Add was ever invoked with reports "not found"
\* and changes neither the reason log nor the zone file.
C3_RemoveNeverAdded ==
    [][(last'.op = "del" /\ last'.never_added)
          => /\ MsgNotFound \in Range(last'.out)
             /\ zones' = zones
             /\ reason_log' = reason_log]_vars

\* The declaration blocks for the domain in the text: the places where
\* zone "<domain>" {...}; stands.
DeclCount(z, domain) ==
    LET block == SubSeq(entry_format(domain), 1, Len(entry_format(domain)) - 2)
    IN  Cardinality({i \in 1..(Len(z) - Len(block) + 1) :
                        SubSeq(z, i, i + Len(block) - 1) = block})

\* The reason-log entries for the domain.
LogEntries(log, domain) ==
    LET entries == load_reason_log(log)
    IN  {i \in 1..Len(entries) : entries[i].domain = domain}

\* C4: an Add(d, r2) that follows a completed Add(d, r1) leaves one reason-log
\* entry for d, with reason r2, and one declaration block for d, and does not
\* append to the zone file.
C4_AddTwice ==
    [][(last.op = "add" /\ last.exit = "ok" /\ last'.op = "add"
        /\ last'.domain = last.domain /\ last'.exit = "ok")
          => /\ Cardinality(LogEntries(reason_log', last'.domain)) = 1
             /\ \A i \in LogEntries(reason_log', last'.domain) :
                    load_reason_log(reason_log')[i].reason = last'.reason
             /\ DeclCount(zones', last'.domain) = 1
             /\ zones' = zones]_vars

\* C5: after a completed Remove(d) that follows a completed Add(d, r), d is not
\* in the reason log, no line of the zone file declares d, and List() does not
\* show d.
C5_RemoveAfterAdd ==
    (Completed("del") /\ last.after_add)
        => /\ last.domain \notin LogDomains
           /\ DeclCount(zones, last.domain) = 0
           /\ last.domain \notin ZoneDomains
           /\ \A row \in Range(list_rows(zones, reason_log)) : row.domain # last.domain

C5_Witness ==
    /\ Completed("del") /\ last.after_add
    /\ last.domain = <<"x">>
    /\ <<"x", "x">> \in LogDomains
    /\ MsgRemoved \in Range(last.out)

\* C6: the domains of the reason-log entries are pairwise distinct.
C6_LogDomainsUnique ==
    LET entries == load_reason_log(reason_log)
    IN  \A i, j \in 1..Len(entries) :
            entries[i].domain = entries[j].domain => i = j

C6_Witness ==
    /\ Completed("add") /\ last.in_log
    /\ Len(load_reason_log(reason_log)) >= 2
    /\ MsgUpdated \in Range(last.out)

\* C7: whenever the reload of an Add or Remove does not succeed (non-zero exit,
\* or the process cannot be started), the invocation prints the failure message
\* and still returns Ok(()).
C7_ReloadNeverRaises ==
    (last.op \in {"add", "del"} /\ last.reload \in {"failure", "spawn_error"})
        => last.exit = "ok" /\ MsgReloadFailed \in Range(last.out)

\* The reason log after the step is the log before it with the reason of the
\* entry for the domain replaced, every entry in its place.
UpdatedInPlace(domain, reason) ==
    LET before == load_reason_log(reason_log)
        after == load_reason_log(reason_log')
    IN  /\ Len(after) = Len(before)
        /\ \A i \in 1..Len(before) :
               after[i] = IF before[i].domain = domain
                          THEN DomainEntry(domain, reason) ELSE before[i]

\* C8 (as stated): an Add(d, r) of a domain already in the reason log updates
\* the reason in place, does not append to the zone file and triggers no reload.
C8_UpdateSkipsReload ==
    [][(last'.op = "add" /\ last'.in_log)
          => /\ UpdatedInPlace(last'.domain, last'.reason)
             /\ zones' = zones
             /\ last'.reload = "none"]_vars

\* C8 (amended): an Add(d, r) of a domain already in the reason log updates the
\* reason in place, does not append to the zone file, and then runs the reload
\* like any other Add.
C8_UpdateStillReloads ==
    [][(last'.op = "add" /\ last'.in_log)
          => /\ UpdatedInPlace(last'.domain, last'.reason)
             /\ zones' = zones
             /\ MsgUpdated \in Range(last'.out)
             /\ last'.reload \in ReloadOutcomes]_vars

C8_Witness ==
    /\ last.op = "add" /\ last.in_log
    /\ last.reload = "failure"
    /\ \E e \in Range(load_reason_log(reason_log)) :
           e.domain = last.domain /\ e.reason = last.reason
    /\ Len(load_reason_log(reason_log)) = 2

\* C9: an Add(d, r) of a new domain whose zone file cannot be opened for append
\* fails with the reason log and the zone file unchanged and runs no reload.
C9_AppendFailureAborts ==
    [][(last'.op = "add" /\ last'.fault = "zone_open" /\ ~last'.in_log)
          => /\ last'.exit = "err"
             /\ reason_log' = reason_log
             /\ zones' = zones
             /\ last'.reload = "none"]_vars

C9_Witness ==
    /\ last.op = "add" /\ last.fault = "zone_open" /\ ~last.in_log
    /\ last.exit = "err"
    /\ last.domain \notin LogDomains
    /\ LogDomains # {}

\* C10: a Remove of a domain that is in neither store reports "not found",
\* changes neither store, still attempts the reload, and returns Ok(()).
C10_RemoveMissingReloads ==
    [][(last'.op = "del" /\ ~last'.in_log /\ ~last'.in_zone)
          => /\ MsgNotFound \in Range(last'.out)
             /\ zones' = zones
             /\ reason_log' = reason_log
             /\ last'.reload \in ReloadOutcomes
             /\ last'.exit = "ok"]_vars

\* The rows are in ascending order of domain.
RowsAscending(rows) ==
    \A i, j \in 1..Len(rows) : i < j => ~StrLess(rows[j].domain, rows[i].domain)

\* How many elements of the sequence satisfy domain = d.
Occurrences(seq, d) == Cardinality({k \in 1..Len(seq) : seq[k] = d})

\* C12: a completed List() changes neither store and runs no reload; it prints
\* one row per domain extracted from the zone file, in ascending order, each
\* with the reason the reason log gives the domain, or "No reason provided."
\* when the log has no entry for it.
C12_ListIsPureAndSorted ==
    [][(last'.op = "list" /\ last'.exit = "ok")
          => LET listed == listed_domains(zones)
                 rows == last'.rows
                 shown == [k \in 1..Len(rows) |-> rows[k].domain]
                 entries == load_reason_log(reason_log)
             IN  /\ zones' = zones
                 /\ reason_log' = reason_log
                 /\ last'.reload = "none"
                 /\ Len(rows) = Len(listed)
                 /\ \A d \in Range(listed) :
                        Occurrences(shown, d) = Occurrences(listed, d)
                 /\ RowsAscending(rows)
                 /\ \A row \in Range(rows) :
                        IF position(entries, row.domain) # 0
                        THEN \E e \in Range(entries) :
                                 e.domain = row.domain /\ e.reason = row.reason
                        ELSE row.reason = DefaultReason]_vars

\* List() after "x" was inserted before "w", with "w" missing from the log.
C12_Witness ==
    /\ Completed("list")
    /\ Len(last.rows) = 2
    /\ listed_domains(zones) = << <<"x">>, <<"w">> >>
    /\ last.rows[1].domain = <<"w">> /\ last.rows[1].reason = DefaultReason
    /\ last.rows[2].domain = <<"x">> /\ last.rows[2].reason = "fraud"

\* C13: the append of an Add of a new domain leaves the previous content of the
\* zone file as a prefix of the new content, and every domain listDomains
\* extracted before is extracted after, in the same place.
C13_AppendKeepsContent ==
    [][(last'.op = "add" /\ ~last'.in_log /\ last'.fault # "zone_open")
          => LET before == listed_domains(zones)
                 after == listed_domains(zones')
             IN  /\ Len(zones') > Len(zones)
                 /\ SubSeq(zones', 1, Len(zones)) = zones
                 /\ Len(after) >= Len(before)
                 /\ \A k \in 1..Len(before) : after[k] = before[k]]_vars

\* An Add of a new domain appended to a file that did not end in a newline.
C13_Witness ==
    /\ Completed("add") /\ ~last.in_log
    /\ \E k \in 1..Len(lines(zones)) :
           /\ contains(lines(zones)[k], SubSeq(entry_format(last.domain), 1, 8))
           /\ parse_domain_from_line(lines(zones)[k]).value # last.domain
    /\ ZoneDomains # {}

\* C14: a Remove(d) that fails on the zone file after it saved the reason log
\* leaves the reason log without d and the zone file as it was, still
\* declaring d.
C14_RemoveCrashDiverges ==
    [][(last'.op = "del" /\ last'.fault = "zone_open" /\ last'.in_log)
          => /\ last'.exit = "err"
             /\ ~InReasonLog(reason_log', last'.domain)
             /\ reason_log' # reason_log
             /\ zones' = zones
             /\ DeclCount(zones', last'.domain) = DeclCount(zones, last'.domain)]_vars

C14_Witness ==
    /\ last.op = "del" /\ last.fault = "zone_open" /\ last.in_log
    /\ last.exit = "err"
    /\ last.domain \in ZoneDomains
    /\ last.domain \notin LogDomains

\* C15: a completed Remove(d) prints "removed" exactly when a zone-file line
\* contained d, "not found" exactly when d was in neither store, and prints one
\* of the two whenever it changed a store.
C15_RemoveReports ==
    Completed("del")
        => /\ (MsgRemoved \in Range(last.out)) <=> last.in_zone
           /\ (MsgNotFound \in Range(last.out)) <=> (~last.in_log /\ ~last.in_zone)
           /\ (last.in_log \/ last.in_zone)
                  => (MsgRemoved \in Range(last.out) \/ MsgNotFound \in Range(last.out))

\* C16: the reason log keeps insertion order.  A completed Add of a new domain
\* appends its entry, a completed Add of an existing domain changes that
\* entry's reason where it stands, and a completed Remove(d) deletes the entry
\* for d and nothing else.
C16_LogKeepsOrder ==
    [][LET before == load_reason_log(reason_log)
           after == load_reason_log(reason_log')
           d == last'.domain
       IN  /\ (last'.op = "add" /\ last'.exit = "ok" /\ ~last'.in_log)
                  => after = Append(before, DomainEntry(d, last'.reason))
           /\ (last'.op = "add" /\ last'.exit = "ok" /\ last'.in_log)
                  => UpdatedInPlace(d, last'.reason)
           /\ (last'.op = "del" /\ last'.exit = "ok")
                  => /\ after = SelectSeq(before, LAMBDA e : e.domain # d)
                     /\ Len(before) - Len(after) <= 1]_vars

\* Remove("x") took the first of three entries and left the other two in order.
C16_Witness ==
    /\ Completed("del") /\ last.in_log /\ last.domain = <<"x">>
    /\ Len(load_reason_log(reason_log)) = 2
    /\ load_reason_log(reason_log)[1].domain = <<"x", "x">>
    /\ load_reason_log(reason_log)[2].domain = <<"w">>

\* The declarations that start in a line: the places where `zone "` stands.
DeclsInLine(line) ==
    Cardinality({i \in 1..(Len(line) - 5) :
                    SubSeq(line, i, i + 5) = SubSeq(entry_format(<<>>), 1, 6)})

\* C17: every line of the zone file holds at most one declaration, and every
\* declared domain is extracted by listDomains.
C17_OneDeclarationPerLine ==
    /\ \A k \in 1..Len(lines(zones)) : DeclsInLine(lines(zones)[k]) <= 1
    /\ \A d \in Domains : DeclCount(zones, d) > 0 => d \in ZoneDomains

\* C18: the zone file holds at most one declaration per domain.
C18_OneDeclarationPerDomain ==
    \A d \in Domains : DeclCount(zones, d) <= 1

\* Every process has run add_domain to its end.
AllDone == \A p \in Procs : conc.proc[p].pc = "done"

====
